---- MODULE Spec2Model ----
(***************************************************************************)
(* The user-list screen of the React Native app: the App component of      *)
(* src/App.js and of src/unnamed/part_000 (the variant that adds the       *)
(* refresh cooldown and the alerts of a failed add).  State is the four    *)
(* useState cells, the wall clock, the HTTP requests in flight and the     *)
(* alerts the last handler step showed.  Every asynchronous handler is     *)
(* split at its single await: one action issues the request, one action    *)
(* runs the continuation when the response arrives.                        *)
(***************************************************************************)
EXTENDS Integers, Sequences, FiniteSets, TLC

VARIABLES
    variant,          \* which source file is running: "App" or "Part000"
    users,            \* useState([])    : the displayed record sequence
    refreshing,       \* useState(false)
    loading,          \* useState(true)
    lastRefreshTime,  \* useState(0)     : part_000 only, stays 0 in App.js
    mounted,          \* the mount effect has run
    crashed,          \* a render threw (an undefined item reached renderItem)
    now,              \* Date.now()
    nextId,           \* number of HTTP requests issued so far
    inflight,         \* requests awaiting their response
    kinds,            \* history: the kind of each request issued, by id
    base,             \* history: the batch response that resolved last
    added,            \* history: adds that succeeded after base, newest first
    lastAccepted,     \* history: trigger time of the last accepted refresh
    ev                \* the last handler step and what it showed

vars == <<variant, users, refreshing, loading, lastRefreshTime, mounted,
          crashed, now, nextId, inflight, kinds, base, added, lastAccepted, ev>>

----------------------------------------------------------------------------
(* Bounds of the model *)

MaxRecordId == 2
MaxRequests == 3
MaxTicks == 2

(* Program constants *)

Cooldown == 10000
RateLimitStatus == 429
Undefined == 0

(* Date.now() at mount is far beyond one cooldown; the clock moves in     *)
(* half-cooldown steps so that pulls fall inside, on and past the window. *)
StartTime == 2 * Cooldown
Tick == Cooldown \div 2
NoTime == 0 - 1

Variants == {"App", "Part000"}
RecordIds == 1..MaxRecordId

RECURSIVE Range(_, _)
Range(a, b) == IF a > b THEN <<>> ELSE <<a>> \o Range(a + 1, b)

(* Bodies of a 2xx response to the size=10 request: a list of records    *)
(* with distinct ids, possibly empty.                                     *)
BatchBodies == {Range(a, b) : a \in RecordIds, b \in 0..MaxRecordId}

(* Bodies of a 2xx response to the size=1 request: at most one record.    *)
AddBodies == {<<>>} \cup {<<r>> : r \in RecordIds}

Ok(body) == [kind |-> "ok", status |-> 200, data |-> body]
HttpError(s) == [kind |-> "http", status |-> s, data |-> <<>>]
TransportError == [kind |-> "transport", status |-> 0, data |-> <<>>]

Failures == {HttpError(RateLimitStatus), HttpError(500), TransportError}
BatchOutcomes == {Ok(b) : b \in BatchBodies} \cup Failures
AddOutcomes == {Ok(b) : b \in AddBodies} \cup Failures

----------------------------------------------------------------------------
(* Alerts *)

FetchRateLimitAlert == <<"Too Many Requests", "Please wait before refreshing again.">>
FetchErrorAlert == <<"Error", "Failed to load users. Please try again later.">>
CooldownAlert == <<"Too Many Refreshes", "Please wait 10 seconds before refreshing again.">>
AddRateLimitAlert == <<"Too Many Requests", "Please wait before adding more users.">>
AddErrorAlert == <<"Error", "Failed to add a new user. Please try again.">>

----------------------------------------------------------------------------
(* axios and the two fetch routines *)

\* axios.get rejects on a transport error and on every non-2xx status
AxiosThrows(o) == o.kind # "ok"

\* a slip: every HTTP error status is taken for the rate limit
IsRateLimitedAnyHttp(o) == o.kind = "http"

\* error.response && error.response.status === 429
IsRateLimited(o) == o.kind = "http" /\ o.status = RateLimitStatus

\* a slip: fetchUsers without its catch block, the rejection reaches the caller
FetchUsersNoCatch(o) ==
    IF o.kind = "ok"
    THEN [ret |-> o.data, alerts |-> <<>>, raised |-> FALSE]
    ELSE [ret |-> <<>>, alerts |-> <<>>, raised |-> TRUE]

\* fetchUsers: the try/catch around axios.get(API_URL)
FetchUsers(o) ==
    IF ~AxiosThrows(o)
    THEN [ret |-> o.data, alerts |-> <<>>, raised |-> FALSE]
    ELSE IF IsRateLimited(o)
         THEN [ret |-> <<>>, alerts |-> <<FetchRateLimitAlert>>, raised |-> FALSE]
         ELSE [ret |-> <<>>, alerts |-> <<FetchErrorAlert>>, raised |-> FALSE]

\* newUserResponse.data[0]: undefined when the body holds no record
DataAt0(body) == IF Len(body) = 0 THEN Undefined ELSE body[1]

\* a slip: setUsers([data[0]]), the new record replaces the list
PrependReplace(rec, prevUsers) == <<rec>>

\* a slip: [...prevUsers, data[0]], the new record goes last
AppendRec(rec, prevUsers) == Append(prevUsers, rec)

\* the updater passed to setUsers by addUser: (prevUsers) => [data[0], ...prevUsers]
Prepend(rec, prevUsers) == <<rec>> \o prevUsers

\* the catch block of addUser
AddFailureAlerts(v, o) ==
    IF v = "Part000"
    THEN IF IsRateLimited(o) THEN <<AddRateLimitAlert>> ELSE <<AddErrorAlert>>
    ELSE <<>>

\* addUser after its await: the new users and the alerts shown
AddUserResult(v, o, prevUsers) ==
    IF ~AxiosThrows(o)
    THEN [users |-> Prepend(DataAt0(o.data), prevUsers), alerts |-> <<>>]
    ELSE [users |-> prevUsers, alerts |-> AddFailureAlerts(v, o)]

\* the cooldown test of onRefresh; App.js has none
CooldownActive(v, currentTime, last) ==
    v = "Part000" /\ currentTime - last < Cooldown

----------------------------------------------------------------------------
(* Rendering *)

\* a slip: the list is rendered without the loading gate
AlwaysRendered == TRUE

\* the list and the floating button are rendered only once loading is false
ListRendered == ~loading

\* keyExtractor and renderItem read item.id / item.first_name: they throw
\* on an undefined item
RenderThrows(us, ld) == ~ld /\ \E i \in 1..Len(us) : us[i] = Undefined

\* pull-to-refresh and the add button can be used
UiLive == mounted /\ ~crashed /\ ListRendered

----------------------------------------------------------------------------
(* Steps *)

NoOutcome == [kind |-> "none", status |-> 0, data |-> <<>>]

\* what a handler step did: the request it issued or resumed, the response it
\* got, what fetchUsers returned to it, the alerts it showed, users before it
Event(op, id, since, accepted, o, ret, raised, alerts, prev) ==
    [op |-> op, id |-> id, since |-> since, accepted |-> accepted,
     outcome |-> o, ret |-> ret, raised |-> raised, alerts |-> alerts, prev |-> prev]

\* a request in flight; at is the currentTime local of onRefresh
Request(id, kind, at) == [id |-> id, kind |-> kind, at |-> at]

\* a slip: the fetched batch is put in front of the old records
SetUsersMerge(prevUsers, fetchedUsers) == fetchedUsers \o prevUsers

\* a slip: an empty fetch result keeps the old records
SetUsersKeepOnEmpty(prevUsers, fetchedUsers) ==
    IF fetchedUsers = <<>> THEN prevUsers ELSE fetchedUsers

\* setUsers(fetchedUsers) in loadData and onRefresh
SetUsers(prevUsers, fetchedUsers) == fetchedUsers

\* a slip: useState(Date.now()), the mount counts as a refresh
InitialLastRefreshTimeNow == StartTime

\* useState(0): the initial last-refresh time
InitialLastRefreshTime == 0

Init ==
    /\ variant \in Variants
    /\ users = <<>>
    /\ refreshing = FALSE
    /\ loading = TRUE
    /\ lastRefreshTime = InitialLastRefreshTime
    /\ mounted = FALSE
    /\ crashed = FALSE
    /\ now = StartTime
    /\ nextId = 0
    /\ inflight = {}
    /\ kinds = <<>>
    /\ base = [id |-> 0, data |-> <<>>]
    /\ added = <<>>
    /\ lastAccepted = NoTime
    /\ ev = Event("init", 0, NoTime, FALSE, NoOutcome, <<>>, FALSE, <<>>, <<>>)

\* wall-clock time passes
Advance ==
    /\ now + Tick <= StartTime + MaxTicks * Tick
    /\ now' = now + Tick
    /\ UNCHANGED <<variant, users, refreshing, loading, lastRefreshTime, mounted,
                   crashed, nextId, inflight, kinds, base, added, lastAccepted, ev>>

\* useEffect(..., []): loadData() up to its await
Mount ==
    /\ ~mounted
    /\ mounted' = TRUE
    /\ nextId' = nextId + 1
    /\ inflight' = inflight \cup {Request(nextId + 1, "load", NoTime)}
    /\ kinds' = Append(kinds, "load")
    /\ ev' = Event("mount", nextId + 1, NoTime, FALSE, NoOutcome, <<>>, FALSE, <<>>, users)
    /\ UNCHANGED <<variant, users, refreshing, loading, lastRefreshTime, crashed,
                   now, base, added, lastAccepted>>

\* loadData after its await
LoadResolve(req, o) ==
    /\ ~crashed
    /\ req \in inflight /\ req.kind = "load"
    /\ LET r == FetchUsers(o)
           us == IF r.raised THEN users ELSE SetUsers(users, r.ret)
           ld == IF r.raised THEN loading ELSE FALSE
       IN /\ users' = us
          /\ loading' = ld
          /\ crashed' = RenderThrows(us, ld)
          /\ base' = [id |-> req.id, data |-> IF AxiosThrows(o) THEN <<>> ELSE o.data]
          /\ ev' = Event("loadResolve", req.id, NoTime, FALSE, o, r.ret, r.raised,
                      r.alerts, users)
    /\ added' = <<>>
    /\ inflight' = inflight \ {req}
    /\ UNCHANGED <<variant, refreshing, lastRefreshTime, mounted, now, nextId,
                   kinds, lastAccepted>>

\* a slip: the cooldown branch shows its alert and falls through to the fetch
NoReturnAfterAlert == FALSE

\* the return statement that ends the cooldown branch of onRefresh
ReturnsAfterAlert == TRUE

\* onRefresh up to its return or its await
Pull ==
    /\ UiLive
    /\ LET since == IF lastAccepted = NoTime THEN NoTime ELSE now - lastAccepted
           violation == CooldownActive(variant, now, lastRefreshTime)
       IN IF violation /\ ReturnsAfterAlert
          THEN /\ ev' = Event("pull", 0, since, FALSE, NoOutcome, <<>>, FALSE,
                              <<CooldownAlert>>, users)
               /\ UNCHANGED <<refreshing, nextId, inflight, kinds, lastAccepted>>
          ELSE /\ nextId < MaxRequests
               /\ refreshing' = TRUE
               /\ nextId' = nextId + 1
               /\ inflight' = inflight \cup {Request(nextId + 1, "refresh", now)}
               /\ kinds' = Append(kinds, "refresh")
               /\ lastAccepted' = now
               /\ ev' = Event("pull", nextId + 1, since, ~violation, NoOutcome, <<>>,
                              FALSE, IF violation THEN <<CooldownAlert>> ELSE <<>>,
                              users)
    /\ UNCHANGED <<variant, users, loading, lastRefreshTime, mounted, crashed, now,
                   base, added>>

\* onRefresh after its await
RefreshResolve(req, o) ==
    /\ ~crashed
    /\ req \in inflight /\ req.kind = "refresh"
    /\ LET r == FetchUsers(o)
           us == IF r.raised THEN users ELSE SetUsers(users, r.ret)
       IN /\ users' = us
          /\ refreshing' = IF r.raised THEN refreshing ELSE FALSE
          /\ lastRefreshTime' = IF r.raised \/ variant = "App"
                                THEN lastRefreshTime ELSE req.at
          /\ crashed' = RenderThrows(us, loading)
          /\ base' = [id |-> req.id, data |-> IF AxiosThrows(o) THEN <<>> ELSE o.data]
          /\ ev' = Event("refreshResolve", req.id, NoTime, FALSE, o, r.ret, r.raised,
                      r.alerts, users)
    /\ added' = <<>>
    /\ inflight' = inflight \ {req}
    /\ UNCHANGED <<variant, loading, mounted, now, nextId, kinds, lastAccepted>>

\* addUser up to its await
Press ==
    /\ UiLive
    /\ nextId < MaxRequests
    /\ nextId' = nextId + 1
    /\ inflight' = inflight \cup {Request(nextId + 1, "add", NoTime)}
    /\ kinds' = Append(kinds, "add")
    /\ ev' = Event("press", nextId + 1, NoTime, FALSE, NoOutcome, <<>>, FALSE, <<>>, users)
    /\ UNCHANGED <<variant, users, refreshing, loading, lastRefreshTime, mounted,
                   crashed, now, base, added, lastAccepted>>

\* addUser after its await
AddResolve(req, o) ==
    /\ ~crashed
    /\ req \in inflight /\ req.kind = "add"
    /\ LET r == AddUserResult(variant, o, users)
       IN /\ users' = r.users
          /\ crashed' = RenderThrows(r.users, loading)
          /\ ev' = Event("addResolve", req.id, NoTime, FALSE, o, <<>>, FALSE,
                      r.alerts, users)
    /\ added' = IF AxiosThrows(o)
                THEN added
                ELSE <<[id |-> req.id, rec |-> DataAt0(o.data)]>> \o added
    /\ inflight' = inflight \ {req}
    /\ UNCHANGED <<variant, refreshing, loading, lastRefreshTime, mounted, now,
                   nextId, kinds, base, lastAccepted>>

Next ==
    \/ Advance
    \/ Mount
    \/ Pull
    \/ Press
    \/ \E req \in inflight, o \in BatchOutcomes : LoadResolve(req, o)
    \/ \E req \in inflight, o \in BatchOutcomes : RefreshResolve(req, o)
    \/ \E req \in inflight, o \in AddOutcomes : AddResolve(req, o)

Spec == Init /\ [][Next]_vars

----------------------------------------------------------------------------
(* Properties *)

InflightIds == {r.id : r \in inflight}
ResolvedIds == (1..nextId) \ InflightIds
Elems(sq) == {sq[i] : i \in 1..Len(sq)}
IsBatchResolve == ev.op \in {"loadResolve", "refreshResolve"}
Failed(o) == o.kind \in {"http", "transport"}

\* C1: a pull-to-refresh triggered less than the cooldown after the trigger
\* of the most recent accepted refresh starts no fetch and shows exactly one
\* alert, the cooldown alert, also while that refresh is still in flight.
C1_PullInsideCooldownRejected ==
    (ev.op = "pull" /\ ev.since # NoTime /\ ev.since < Cooldown)
        => /\ ~ev.accepted
           /\ ev.id = 0
           /\ ev.alerts = <<CooldownAlert>>

\* C2: when the initial fetch resolves, whatever its outcome, loading is false
\* and users is exactly the fetch result, empty on failure.
C2_LoadResolvesToReady ==
    ev.op = "loadResolve"
        => /\ loading = FALSE
           /\ users = (IF ev.outcome.kind = "ok" THEN ev.outcome.data ELSE <<>>)

C2_Witness ==
    /\ ev.op = "loadResolve"
    /\ ev.outcome.kind = "http" /\ ev.outcome.status = 429
    /\ ~loading /\ users = <<>>

C4_RefreshReplaces ==
    (ev.op = "refreshResolve" /\ ev.outcome.kind = "ok") => users = ev.outcome.data

C4_Witness ==
    /\ ev.op = "refreshResolve" /\ ev.outcome.kind = "ok"
    /\ \E i \in 1..Len(ev.prev) : ev.prev[i] \notin Elems(ev.outcome.data)
    /\ Len(ev.prev) > Len(ev.outcome.data)
    /\ users = ev.outcome.data

\* C5: fetchUsers never raises to its caller; on a failed GET it shows exactly
\* one alert and returns the empty sequence, the alert being the rate-limit
\* alert exactly when the response status is 429 and the generic alert
\* otherwise; on success it shows no alert and returns the body.
C5_FetchUsersAbsorbsFailures ==
    IsBatchResolve
        => /\ ~ev.raised
           /\ Failed(ev.outcome)
                => /\ ev.ret = <<>>
                   /\ Len(ev.alerts) = 1
                   /\ ev.alerts[1] = FetchRateLimitAlert
                        <=> (ev.outcome.kind = "http" /\ ev.outcome.status = 429)
                   /\ ev.alerts[1] \in {FetchRateLimitAlert, FetchErrorAlert}
           /\ ev.outcome.kind = "ok"
                => /\ ev.ret = ev.outcome.data
                   /\ ev.alerts = <<>>

C5_Witness ==
    /\ ev.op = "refreshResolve"
    /\ ev.outcome.kind = "http" /\ ev.outcome.status = 500
    /\ ev.alerts = <<FetchErrorAlert>> /\ ev.ret = <<>>

\* C6: every add that fails shows an alert and leaves users unchanged.
C6_FailedAddNotifies ==
    (ev.op = "addResolve" /\ Failed(ev.outcome))
        => /\ Len(ev.alerts) >= 1
           /\ users = ev.prev

\* C7: once every request in flight has resolved, loading and refreshing are
\* false, users holds records only, and refresh and add can still be used.
C7_NeverStuck ==
    (mounted /\ inflight = {})
        => /\ loading = FALSE
           /\ refreshing = FALSE
           /\ \A i \in 1..Len(users) : users[i] \in RecordIds
           /\ UiLive

\* C8: loading and refreshing are never both true.
C8_NotLoadingAndRefreshing == ~(loading /\ refreshing)

C8_Witness == refreshing /\ ~loading /\ \E r \in inflight : r.kind = "refresh"

\* C9: the batch response that resolved last, whichever request it answers,
\* is what users ends with; in front of it are only the adds resolved after it.
C9_LastResolvedBatchWins ==
    base.id # 0
        => /\ Len(users) >= Len(base.data)
           /\ SubSeq(users, Len(users) - Len(base.data) + 1, Len(users)) = base.data
           /\ IsBatchResolve => (ev.id = base.id /\ users = base.data)

C9_Witness ==
    /\ ev.op = "refreshResolve"
    /\ kinds[base.id] = "refresh"
    /\ \E j \in ResolvedIds : j > base.id /\ kinds[j] = "refresh"
    /\ users = base.data /\ users # <<>>

\* C10: users is longer than the last resolved batch by exactly the number of
\* adds that succeeded since, one entry per add, the most recently resolved
\* first, whatever the order the adds were issued in.
C10_NoAddLost ==
    /\ Len(users) = Len(added) + Len(base.data)
    /\ \A i \in 1..Len(added) : users[i] = added[i].rec

C10_Witness ==
    /\ Len(added) = 2
    /\ added[1].id < added[2].id
    /\ added[1].rec # added[2].rec
    /\ added[1].rec \in RecordIds /\ added[2].rec \in RecordIds
    /\ users[1] = added[1].rec /\ users[2] = added[2].rec

\* C11: the stored last-refresh time never decreases.
C11_LastRefreshTimeMonotonic == [][lastRefreshTime' >= lastRefreshTime]_vars

RefreshIds == {i \in 1..Len(kinds) : kinds[i] = "refresh"}
RefreshInFlight == \E r \in inflight : r.kind = "refresh"
LoadInFlight == \E r \in inflight : r.kind = "load"

\* C12: when the fetch of an accepted refresh fails, users becomes the empty
\* sequence, refreshing is cleared and the refresh is recorded as the last
\* accepted one: for the most recently accepted refresh the stored
\* last-refresh time is its trigger time.
C12_FailedRefreshEmptiesAndRecords ==
    (ev.op = "refreshResolve" /\ Failed(ev.outcome))
        => /\ users = <<>>
           /\ refreshing = FALSE
           /\ (\A i \in RefreshIds : i <= ev.id) => lastRefreshTime = lastAccepted

\* C13: a pull rejected for the cooldown changes nothing: users, loading,
\* refreshing and the last-refresh time stay as they were and no request is
\* put in flight.
C13_RejectedPullChangesNothing ==
    [][(ev'.op = "pull" /\ ~ev'.accepted)
          => UNCHANGED <<users, loading, refreshing, lastRefreshTime, inflight,
                         nextId>>]_vars

C13_Witness ==
    /\ ev.op = "pull" /\ ~ev.accepted
    /\ ev.alerts = <<CooldownAlert>>
    /\ users # <<>>
    /\ lastRefreshTime > 0 /\ now > lastRefreshTime

\* C14: refreshing is true only while the fetch of an accepted refresh is in
\* flight.
C14_RefreshingOnlyDuringRefresh == refreshing => RefreshInFlight

C14_Witness ==
    /\ refreshing /\ RefreshInFlight
    /\ ev.op = "addResolve" /\ ev.outcome.kind = "ok"

\* C15: loading starts true, is cleared by the step that resolves the initial
\* fetch and by no other, is cleared once that fetch has resolved, and once
\* false stays false.
C15_LoadingClearedOnce ==
    [][/\ ~loading => ~loading'
       /\ (loading /\ ~loading') => ev'.op = "loadResolve"
       /\ (~mounted => loading)
       /\ (mounted' /\ ~LoadInFlight') => ~loading']_vars

C15_Witness ==
    /\ ~loading
    /\ ev.op = "refreshResolve" /\ Failed(ev.outcome)
    /\ inflight = {}

\* C16: while loading is true no refresh and no add is issued, so the initial
\* request resolves before any other request exists.
C16_NothingIssuedWhileLoading ==
    /\ loading => \A i \in 1..Len(kinds) : kinds[i] = "load"
    /\ LoadInFlight => (loading /\ nextId = 1)
    /\ base.id > 1 => \A i \in 1..Len(kinds) : kinds[i] = "load" => i < base.id

C16_Witness ==
    /\ mounted /\ loading /\ LoadInFlight
    /\ now > StartTime
    /\ nextId = 1

\* C17: every entry of users is a record that a response returned; no
\* undefined entry is ever in it.
C17_OnlyReturnedRecords ==
    \A i \in 1..Len(users) :
        /\ users[i] # Undefined
        /\ users[i] \in Elems(base.data) \cup {added[j].rec : j \in 1..Len(added)}

\* C18: the first pull-to-refresh after mount is accepted, with a fetch
\* issued and no alert, however soon after the initial fetch it comes.
C18_FirstPullAccepted ==
    (ev.op = "pull" /\ ev.since = NoTime)
        => /\ ev.accepted
           /\ ev.id # 0
           /\ ev.alerts = <<>>

C18_Witness ==
    /\ ev.op = "pull" /\ ev.since = NoTime /\ ev.accepted
    /\ now = StartTime
    /\ variant = "Part000"
    /\ refreshing /\ RefreshInFlight

====
